---- MODULE Spec2Model ----
(***************************************************************************)
(* Model of src/event.rs: the PlayerEvents iterator, which derives Events  *)
(* from consecutive Progress snapshots of an MPRIS player.                 *)
(*                                                                         *)
(* The iterator is modelled at the granularity of its calls to the player  *)
(* (is_running, process_events_blocking_until_dirty, Progress::from_player)*)
(* so that the player may quit or come back between any two of them.       *)
(***************************************************************************)
EXTENDS Integers, Sequences, FiniteSets, TLC

\* ------------------------------------------------------------------------
\* Value domains
\* ------------------------------------------------------------------------

\* Number of distinct track ids a player reports.
MaxTrack == 2

PlaybackStatus == {"Playing", "Paused", "Stopped"}

LoopStatus == {"None", "Track", "Playlist"}

\* f64 values; "NaN" stands for an IEEE-754 not-a-number.
F64 == {"0.5", "1.0", "NaN"}

\* The playback rates a player reports: the f64 values that are numbers.
Rates == F64 \ {"NaN"}

\* f64 `!=` (src/event.rs:117, 124): NaN is unequal to everything, itself included.
f64_ne(a, b) == a = "NaN" \/ b = "NaN" \/ a # b

TrackIds == 1 .. MaxTrack

\* Metadata.rest: the map of the metadata entries without a dedicated field,
\* as the set of its keys.
Rests == {{}, {"xesam:comment"}}

\* The parts of Metadata that PlayerEvents reads or clears.
Metadata == [track_id : TrackIds, rest : Rests]

\* Metadata::clone_without_rest: the same metadata with an empty `rest`.
clone_without_rest(m) == [m EXCEPT !.rest = {}]

\* Metadata::track_id
track_id(m) == m.track_id

\* The fields of Progress that PlayerEvents reads.
Progress ==
    [playback_status : PlaybackStatus,
     loop_status : LoopStatus,
     shuffle : BOOLEAN,
     current_volume : F64,
     playback_rate : Rates,
     metadata : Metadata]

\* last_progress before PlayerEvents::new has run.
NoProgress ==
    [playback_status |-> "unset", loop_status |-> "unset", shuffle |-> FALSE,
     current_volume |-> "unset", playback_rate |-> "unset",
     metadata |-> [track_id |-> 0, rest |-> {}]]

\* ------------------------------------------------------------------------
\* enum Event
\* ------------------------------------------------------------------------

PlayerShutDown == [type |-> "PlayerShutDown"]

Paused == [type |-> "Paused"]

Playing == [type |-> "Playing"]

Stopped == [type |-> "Stopped"]

LoopingChanged(l) == [type |-> "LoopingChanged", loop_status |-> l]

ShuffleToggled(b) == [type |-> "ShuffleToggled", shuffle |-> b]

VolumeChanged(v) == [type |-> "VolumeChanged", volume |-> v]

PlaybackRateChanged(r) == [type |-> "PlaybackRateChanged", rate |-> r]

TrackChanged(m) == [type |-> "TrackChanged", metadata |-> m]

\* ------------------------------------------------------------------------
\* Iterator::Item = Option<Result<Event, DBusError>>
\* ------------------------------------------------------------------------

NoCall == [kind |-> "NoCall"]

None == [kind |-> "None"]

SomeOk(e) == [kind |-> "Ok", event |-> e]

SomeErr == [kind |-> "Err"]

\* ------------------------------------------------------------------------
\* State
\* ------------------------------------------------------------------------

VARIABLES
    running,        \* the player is on the bus: what Player::is_running returns
    buffer,         \* PlayerEvents.buffer
    last_progress,  \* PlayerEvents.last_progress
    pc,             \* position of the consumer thread in new() / next()
    ret,            \* what the most recent completed next() call returned
    burst,          \* history: the events pushed by the latest run of read_events,
                    \* forgotten when next() goes to block again
    drained,        \* history: how many of them next() has yielded
    last_fetch,     \* history: how the latest Progress::from_player call ended
    fetched,        \* history: the Progress the latest successful call returned
    track,          \* history: whether `yielded` is kept in this behaviour
    yielded         \* history: per compared field, the value of the event yielded
                    \* last for it, or the value new() fetched if there was none

vars == <<running, buffer, last_progress, pc, ret, burst, drained, last_fetch, fetched,
          track, yielded>>

iter == <<buffer, last_progress>>

fetch_hist == <<last_fetch, fetched>>

yield_hist == <<track, yielded>>

hist == <<burst, drained, fetch_hist, yield_hist>>

\* `yielded` before new() has run.
NoYield ==
    [playback_status |-> "unset", loop_status |-> "unset", shuffle |-> FALSE,
     current_volume |-> "unset", playback_rate |-> "unset", track_id |-> 0]

\* `yielded` right after new() has fetched a Progress.
FirstYield(progress) ==
    [playback_status |-> progress.playback_status,
     loop_status |-> progress.loop_status,
     shuffle |-> progress.shuffle,
     current_volume |-> progress.current_volume,
     playback_rate |-> progress.playback_rate,
     track_id |-> progress.metadata.track_id]

\* `yielded` after next() has yielded an event.
NextYield(y, e) ==
    CASE e.type \in {"Playing", "Paused", "Stopped"} ->
            [y EXCEPT !.playback_status = e.type]
      [] e.type = "LoopingChanged" -> [y EXCEPT !.loop_status = e.loop_status]
      [] e.type = "ShuffleToggled" -> [y EXCEPT !.shuffle = e.shuffle]
      [] e.type = "VolumeChanged" -> [y EXCEPT !.current_volume = e.volume]
      [] e.type = "PlaybackRateChanged" -> [y EXCEPT !.playback_rate = e.rate]
      [] e.type = "TrackChanged" -> [y EXCEPT !.track_id = e.metadata.track_id]
      [] OTHER -> y

Init ==
    /\ running \in BOOLEAN
    /\ buffer = <<>>
    /\ last_progress = NoProgress
    /\ pc = "new"
    /\ ret = NoCall
    /\ burst = <<>>
    /\ drained = 0
    /\ last_fetch = "none"
    /\ fetched = NoProgress
    /\ track = FALSE
    /\ yielded = NoYield

\* ------------------------------------------------------------------------
\* The player (environment)
\* ------------------------------------------------------------------------

\* The player quits: it loses its bus name.
player_quits ==
    /\ running
    /\ running' = FALSE
    /\ UNCHANGED <<iter, pc, ret, hist>>

\* A player takes the bus name (again).
player_starts ==
    /\ ~running
    /\ running' = TRUE
    /\ UNCHANGED <<iter, pc, ret, hist>>

\* ------------------------------------------------------------------------
\* PlayerEvents::new
\* ------------------------------------------------------------------------

\* new() that starts from a fixed Progress instead of the fetched one.
new_ok_default ==
    /\ pc = "new"
    /\ running
    /\ \E progress \in Progress :
        /\ buffer' = <<>>
        /\ last_progress' = [playback_status |-> "Stopped", loop_status |-> "None",
                             shuffle |-> FALSE, current_volume |-> "1.0",
                             playback_rate |-> "1.0",
                             metadata |-> [track_id |-> 1, rest |-> {}]]
        /\ fetched' = progress
    /\ pc' = "idle"
    /\ last_fetch' = "ok"
    /\ yielded' = IF track THEN FirstYield(fetched') ELSE yielded
    /\ UNCHANGED <<running, ret, burst, drained, track>>

\* Progress::from_player succeeds: the stream exists.
new_ok ==
    /\ pc = "new"
    /\ running
    /\ \E progress \in Progress :
        /\ buffer' = <<>>
        /\ last_progress' = progress
        /\ fetched' = progress
    /\ pc' = "idle"
    /\ last_fetch' = "ok"
    /\ yielded' = IF track THEN FirstYield(fetched') ELSE yielded
    /\ UNCHANGED <<running, ret, burst, drained, track>>

\* Progress::from_player fails: `?` returns the error, no stream exists.
new_err ==
    /\ pc = "new"
    /\ pc' = "failed"
    /\ last_fetch' = IF running THEN "err" ELSE "err_gone"
    /\ UNCHANGED <<running, iter, ret, burst, drained, fetched, yield_hist>>

\* ------------------------------------------------------------------------
\* The comparison passes of read_events
\* ------------------------------------------------------------------------

detect_playback_status_events(buf, last, new_progress) ==
    IF last.playback_status = new_progress.playback_status THEN buf
    ELSE IF new_progress.playback_status = "Playing" THEN Append(buf, Playing)
    ELSE IF new_progress.playback_status = "Paused" THEN Append(buf, Paused)
    ELSE Append(buf, Stopped)

\* The loop status pass reporting the old loop status.
detect_loop_status_events_old(buf, last, new_progress) ==
    IF last.loop_status # new_progress.loop_status
    THEN Append(buf, LoopingChanged(last.loop_status))
    ELSE buf

detect_loop_status_events(buf, last, new_progress) ==
    IF last.loop_status # new_progress.loop_status
    THEN Append(buf, LoopingChanged(new_progress.loop_status))
    ELSE buf

detect_shuffle_events(buf, last, new_progress) ==
    IF last.shuffle # new_progress.shuffle
    THEN Append(buf, ShuffleToggled(new_progress.shuffle))
    ELSE buf

detect_volume_events(buf, last, new_progress) ==
    IF f64_ne(last.current_volume, new_progress.current_volume)
    THEN Append(buf, VolumeChanged(new_progress.current_volume))
    ELSE buf

\* The playback rate pass comparing against the last volume.
detect_playback_rate_events_vs_volume(buf, last, new_progress) ==
    IF f64_ne(last.current_volume, new_progress.playback_rate)
    THEN Append(buf, PlaybackRateChanged(new_progress.playback_rate))
    ELSE buf

detect_playback_rate_events(buf, last, new_progress) ==
    IF f64_ne(last.playback_rate, new_progress.playback_rate)
    THEN Append(buf, PlaybackRateChanged(new_progress.playback_rate))
    ELSE buf

\* The metadata pass comparing the whole metadata.
detect_metadata_events_whole(buf, last, new_progress) ==
    IF last.metadata # new_progress.metadata
    THEN Append(buf, TrackChanged(clone_without_rest(new_progress.metadata)))
    ELSE buf

\* The metadata pass pushing a plain clone of the new metadata.
detect_metadata_events_with_rest(buf, last, new_progress) ==
    IF track_id(last.metadata) # track_id(new_progress.metadata)
    THEN Append(buf, TrackChanged(new_progress.metadata))
    ELSE buf

detect_metadata_events(buf, last, new_progress) ==
    IF track_id(last.metadata) # track_id(new_progress.metadata)
    THEN Append(buf, TrackChanged(clone_without_rest(new_progress.metadata)))
    ELSE buf

\* The passes with the metadata pass moved in front of the volume pass.
detect_events_metadata_first(buf, last, new_progress) ==
    LET b1 == detect_playback_status_events(buf, last, new_progress)
        b2 == detect_loop_status_events(b1, last, new_progress)
        b3 == detect_shuffle_events(b2, last, new_progress)
        b4 == detect_metadata_events(b3, last, new_progress)
        b5 == detect_volume_events(b4, last, new_progress)
    IN  detect_playback_rate_events(b5, last, new_progress)

\* The six passes in the order read_events calls them.
detect_events(buf, last, new_progress) ==
    LET b1 == detect_playback_status_events(buf, last, new_progress)
        b2 == detect_loop_status_events(b1, last, new_progress)
        b3 == detect_shuffle_events(b2, last, new_progress)
        b4 == detect_volume_events(b3, last, new_progress)
        b5 == detect_playback_rate_events(b4, last, new_progress)
    IN  detect_metadata_events(b5, last, new_progress)

\* ------------------------------------------------------------------------
\* Iterator::next and read_events
\* ------------------------------------------------------------------------

\* The loop condition as `self.buffer.len() < 2`.
loop_test_len ==
    IF Len(buffer) < 2
    THEN /\ pc' = "is_running"
         /\ UNCHANGED <<buffer, ret, drained, yielded>>
    ELSE /\ ret' = SomeOk(Head(buffer))
         /\ buffer' = Tail(buffer)
         /\ drained' = drained + 1
         /\ yielded' = IF track THEN NextYield(yielded, Head(buffer)) ELSE yielded
         /\ pc' = "idle"

\* `while self.buffer.is_empty()`: with an empty buffer the loop body runs,
\* otherwise `let event = self.buffer.remove(0); Some(Ok(event))`.
loop_test ==
    IF buffer = <<>>
    THEN /\ pc' = "is_running"
         /\ UNCHANGED <<buffer, ret, drained, yielded>>
    ELSE /\ ret' = SomeOk(Head(buffer))
         /\ buffer' = Tail(buffer)
         /\ drained' = drained + 1
         /\ yielded' = IF track THEN NextYield(yielded, Head(buffer)) ELSE yielded
         /\ pc' = "idle"

\* next() that checks is_running before it looks at the buffer.
next_call_liveness_first ==
    /\ pc = "idle"
    /\ IF ~running
       THEN /\ ret' = None
            /\ UNCHANGED <<buffer, pc, drained, yielded>>
       ELSE loop_test
    /\ UNCHANGED <<running, last_progress, burst, fetch_hist, track>>

\* The consumer calls next(); the loop condition is evaluated for the first time.
next_call ==
    /\ pc = "idle"
    /\ loop_test
    /\ UNCHANGED <<running, last_progress, burst, fetch_hist, track>>

\* read_events has returned Ok(()); the loop condition is evaluated again.
next_loop ==
    /\ pc = "loop"
    /\ loop_test
    /\ UNCHANGED <<running, last_progress, burst, fetch_hist, track>>

\* next() that yields PlayerShutDown when it finds the player gone.
next_is_running_shutdown ==
    /\ pc = "is_running"
    /\ IF ~running
       THEN /\ ret' = SomeOk(PlayerShutDown)
            /\ pc' = "idle"
            /\ UNCHANGED <<burst, drained>>
       ELSE /\ pc' = "wait"
            /\ burst' = <<>>
            /\ drained' = 0
            /\ UNCHANGED ret
    /\ UNCHANGED <<running, iter, fetch_hist, yield_hist>>

\* next() that calls read_events whether the player is running or not.
next_is_running_no_end ==
    /\ pc = "is_running"
    /\ pc' = "wait"
    /\ burst' = <<>>
    /\ drained' = 0
    /\ UNCHANGED <<running, iter, ret, fetch_hist, yield_hist>>

\* `if !self.player.is_running() { return None; }`, else read_events is called.
next_is_running ==
    /\ pc = "is_running"
    /\ IF ~running
       THEN /\ ret' = None
            /\ pc' = "idle"
            /\ UNCHANGED <<burst, drained>>
       ELSE /\ pc' = "wait"
            /\ burst' = <<>>
            /\ drained' = 0
            /\ UNCHANGED ret
    /\ UNCHANGED <<running, iter, fetch_hist, yield_hist>>

\* process_events_blocking_until_dirty returns (for whatever reason).
read_events_wait ==
    /\ pc = "wait"
    /\ pc' = "recheck"
    /\ UNCHANGED <<running, iter, ret, hist>>

\* read_events without the is_running check after the wait.
read_events_is_running_no_check ==
    /\ pc = "recheck"
    /\ pc' = "fetch"
    /\ UNCHANGED <<running, iter, ret, hist>>

\* read_events that pushes PlayerShutDown and goes on without returning.
read_events_is_running_no_return ==
    /\ pc = "recheck"
    /\ IF ~running
       THEN /\ buffer' = Append(buffer, PlayerShutDown)
            /\ burst' = <<PlayerShutDown>>
            /\ drained' = 0
       ELSE UNCHANGED <<buffer, burst, drained>>
    /\ pc' = "fetch"
    /\ UNCHANGED <<running, last_progress, ret, fetch_hist, yield_hist>>

\* `if !self.player.is_running() { push(PlayerShutDown); return Ok(()) }`
read_events_is_running ==
    /\ pc = "recheck"
    /\ IF ~running
       THEN /\ buffer' = Append(buffer, PlayerShutDown)
            /\ burst' = <<PlayerShutDown>>
            /\ drained' = 0
            /\ pc' = "loop"
       ELSE /\ pc' = "fetch"
            /\ UNCHANGED <<buffer, burst, drained>>
    /\ UNCHANGED <<running, last_progress, ret, fetch_hist, yield_hist>>

\* read_events that replaces last_progress only when a pass pushed an event.
read_events_ok_keep_on_noop ==
    /\ pc = "fetch"
    /\ running
    /\ \E new_progress \in Progress :
        /\ buffer' = detect_events(buffer, last_progress, new_progress)
        /\ last_progress' = IF buffer' = buffer THEN last_progress ELSE new_progress
        /\ fetched' = new_progress
    /\ burst' = buffer'
    /\ drained' = 0
    /\ last_fetch' = "ok"
    /\ pc' = "loop"
    /\ UNCHANGED <<running, ret, yield_hist>>

\* read_events without the assignment to last_progress.
read_events_ok_stale ==
    /\ pc = "fetch"
    /\ running
    /\ \E new_progress \in Progress :
        /\ buffer' = detect_events(buffer, last_progress, new_progress)
        /\ fetched' = new_progress
    /\ burst' = buffer'
    /\ drained' = 0
    /\ last_fetch' = "ok"
    /\ pc' = "loop"
    /\ UNCHANGED <<running, last_progress, ret, yield_hist>>

\* Progress::from_player succeeds; the passes run; last_progress is replaced;
\* read_events returns Ok(()) and next() loops.
read_events_ok ==
    /\ pc = "fetch"
    /\ running
    /\ \E new_progress \in Progress :
        /\ buffer' = detect_events(buffer, last_progress, new_progress)
        /\ last_progress' = new_progress
        /\ fetched' = new_progress
    /\ burst' = buffer'
    /\ drained' = 0
    /\ last_fetch' = "ok"
    /\ pc' = "loop"
    /\ UNCHANGED <<running, ret, yield_hist>>

\* next() that ignores the error of read_events and loops.
read_events_err_swallowed ==
    /\ pc = "fetch"
    /\ last_fetch' = IF running THEN "err" ELSE "err_gone"
    /\ pc' = "loop"
    /\ UNCHANGED <<running, iter, ret, burst, drained, fetched, yield_hist>>

\* Progress::from_player fails; read_events returns the error and next()
\* returns Some(Err(err)).
read_events_err ==
    /\ pc = "fetch"
    /\ last_fetch' = IF running THEN "err" ELSE "err_gone"
    /\ ret' = SomeErr
    /\ pc' = "idle"
    /\ UNCHANGED <<running, iter, burst, drained, fetched, yield_hist>>

Next ==
    \/ player_quits
    \/ player_starts
    \/ new_ok
    \/ new_err
    \/ next_call
    \/ next_loop
    \/ next_is_running
    \/ read_events_wait
    \/ read_events_is_running
    \/ read_events_ok
    \/ read_events_err

Spec == Init /\ [][Next]_vars

\* The state before construction, with `yielded` kept.
InitTracked ==
    /\ running \in BOOLEAN
    /\ buffer = <<>>
    /\ last_progress = NoProgress
    /\ pc = "new"
    /\ ret = NoCall
    /\ burst = <<>>
    /\ drained = 0
    /\ last_fetch = "none"
    /\ fetched = NoProgress
    /\ track = TRUE
    /\ yielded = NoYield

\* A step that fetches no snapshot or one with an empty `rest`, which no
\* yielded value depends on.
tracked_fetch == fetched' = fetched \/ fetched'.metadata.rest = {}

\* The same program, with the history of yielded values kept.
TrackedSpec == InitTracked /\ [][Next /\ tracked_fetch]_vars

\* The steps of the thread that constructs the stream and consumes it.
iter_step ==
    \/ new_ok
    \/ new_err
    \/ next_call
    \/ next_loop
    \/ next_is_running
    \/ read_events_wait
    \/ read_events_is_running
    \/ read_events_ok
    \/ read_events_err

\* The snapshots the player reports in the behaviours checked for liveness:
\* playback status and track id vary, the other fields are fixed.
LiveProgress ==
    {p \in Progress :
        /\ p.loop_status = "None"
        /\ p.shuffle = FALSE
        /\ p.current_volume = "1.0"
        /\ p.playback_rate = "1.0"
        /\ p.metadata.rest = {}}

\* A step that fetches no snapshot or one of LiveProgress.
live_fetch == fetched' = fetched \/ fetched' \in LiveProgress

\* The consumer keeps calling next(), every call of the player returns and
\* process_events_blocking_until_dirty always returns in the end.
FairSpec ==
    /\ Init
    /\ [][Next /\ live_fetch]_vars
    /\ WF_vars(iter_step /\ live_fetch)

\* ------------------------------------------------------------------------
\* Properties
\* ------------------------------------------------------------------------

\* A step in which a next() call returns to the consumer.
Returns ==
    /\ pc' = "idle"
    /\ \/ pc \in {"loop", "is_running", "fetch"}
       \/ pc = "idle" /\ drained' = drained + 1

\* The comparison pass that produces an event (0: none, PlayerShutDown).
PassOf(e) ==
    CASE e.type \in {"Playing", "Paused", "Stopped"} -> 1
      [] e.type = "LoopingChanged" -> 2
      [] e.type = "ShuffleToggled" -> 3
      [] e.type = "VolumeChanged" -> 4
      [] e.type = "PlaybackRateChanged" -> 5
      [] e.type = "TrackChanged" -> 6
      [] OTHER -> 0

\* C1: the events one run of read_events pushes are in the order of the
\* passes (playback status, LoopingChanged, ShuffleToggled, VolumeChanged,
\* PlaybackRateChanged, TrackChanged), and an event that next() has just
\* yielded comes from an earlier pass than every event still queued.
C1_FixedPassOrder ==
    /\ \A i, j \in 1 .. Len(burst) :
          i < j => PassOf(burst[i]) < PassOf(burst[j])
    /\ (pc = "idle" /\ ret.kind = "Ok") =>
          \A i \in 1 .. Len(buffer) : PassOf(ret.event) < PassOf(buffer[i])

\* A playback-status event has been yielded while VolumeChanged and
\* TrackChanged of the same run of read_events are still queued, in that order.
C1_Witness ==
    /\ pc = "idle"
    /\ ret.kind = "Ok"
    /\ PassOf(ret.event) = 1
    /\ Len(buffer) = 2
    /\ buffer[1].type = "VolumeChanged"
    /\ buffer[2].type = "TrackChanged"

\* C2 as stated: a next() call that finds the buffer empty and the player not
\* running yields PlayerShutDown.
C2_Original ==
    [][(pc = "is_running" /\ ~running /\ pc' # pc) =>
          ret' = SomeOk(PlayerShutDown)]_vars

\* C2 amended: a next() call that finds the buffer empty and the player not
\* running returns None at once: it yields no event, pushes none, and goes
\* neither to the blocking wait nor to Progress::from_player.
C2_EndsWithoutShutdown ==
    [][(pc = "is_running" /\ ~running /\ pc' # pc) =>
          /\ Returns
          /\ ret' = None
          /\ buffer' = <<>>
          /\ UNCHANGED <<last_progress, last_fetch, fetched>>]_vars

\* A call has returned None with the player gone.
C2_Witness ==
    /\ pc = "idle"
    /\ ret = None
    /\ ~running
    /\ buffer = <<>>

\* C3 as stated: found gone at the check after the wait, read_events pushes
\* exactly PlayerShutDown, fetches nothing and keeps last_progress; that
\* next() call yields PlayerShutDown; the call after it returns None.
C3_Original ==
    [][/\ (pc = "recheck" /\ ~running /\ pc' # pc) =>
            /\ buffer' = <<PlayerShutDown>>
            /\ pc' = "loop"
            /\ UNCHANGED <<last_progress, last_fetch, fetched>>
       /\ (pc = "loop" /\ burst = <<PlayerShutDown>> /\ pc' # pc) =>
            /\ Returns
            /\ ret' = SomeOk(PlayerShutDown)
       /\ (Returns /\ ret = SomeOk(PlayerShutDown)) => ret' = None]_vars

\* The part of C3 about the call that finds the player gone after the wait.
C3_ShutdownAfterWait ==
    [][/\ (pc = "recheck" /\ ~running /\ pc' # pc) =>
            /\ buffer' = <<PlayerShutDown>>
            /\ pc' = "loop"
            /\ UNCHANGED <<last_progress, last_fetch, fetched>>
       /\ (pc = "loop" /\ burst = <<PlayerShutDown>> /\ pc' # pc) =>
            /\ Returns
            /\ ret' = SomeOk(PlayerShutDown)]_vars

\* C4: the events one run of read_events pushed are yielded by the next
\* calls, one per call and in the order pushed, and the iterator is in the
\* blocking wait only with an empty buffer, that is after the last of them.
C4_BurstDrained ==
    /\ drained \in 0 .. Len(burst)
    /\ Len(burst) <= 6
    /\ buffer = SubSeq(burst, drained + 1, Len(burst))
    /\ (pc = "idle" /\ ret.kind = "Ok") =>
          drained >= 1 /\ ret.event = burst[drained]
    /\ pc \in {"is_running", "wait", "recheck", "fetch"} => buffer = <<>>

\* The third and last event of a run of read_events has just been yielded.
C4_Witness ==
    /\ pc = "idle"
    /\ Len(burst) = 3
    /\ drained = 3
    /\ ret = SomeOk(burst[3])

\* Which of the six compared fields differ, in the order of the passes.
Differs(last, new_progress) ==
    << last.playback_status # new_progress.playback_status,
       last.loop_status # new_progress.loop_status,
       last.shuffle # new_progress.shuffle,
       f64_ne(last.current_volume, new_progress.current_volume),
       f64_ne(last.playback_rate, new_progress.playback_rate),
       last.metadata.track_id # new_progress.metadata.track_id >>

\* The event each pass has to report for a snapshot, in the order of the passes.
Reports(new_progress) ==
    << [type |-> new_progress.playback_status],
       [type |-> "LoopingChanged", loop_status |-> new_progress.loop_status],
       [type |-> "ShuffleToggled", shuffle |-> new_progress.shuffle],
       [type |-> "VolumeChanged", volume |-> new_progress.current_volume],
       [type |-> "PlaybackRateChanged", rate |-> new_progress.playback_rate],
       [type |-> "TrackChanged",
        metadata |-> [track_id |-> new_progress.metadata.track_id, rest |-> {}]] >>

\* The events a comparison of two snapshots has to produce.
ExpectedEvents(last, new_progress) ==
    LET differs == Differs(last, new_progress)
        reports == Reports(new_progress)
        report(i) == IF differs[i] THEN <<reports[i]>> ELSE <<>>
    IN  report(1) \o report(2) \o report(3) \o report(4) \o report(5) \o report(6)

\* Some event of the given type is in the sequence.
HasEvent(events, type) == \E i \in 1 .. Len(events) : events[i].type = type

\* C5: when Progress::from_player fails in read_events, that next() call
\* returns the error with buffer (empty) and last_progress untouched, and
\* the first successful comparison after an error is made against the
\* snapshot that was the last one before the error.
C5_ErrorPassthrough ==
    [][/\ (pc = "fetch" /\ pc' # pc /\ last_fetch' # "ok") =>
            /\ Returns
            /\ ret' = SomeErr
            /\ buffer = <<>>
            /\ UNCHANGED <<buffer, last_progress>>
       /\ (pc = "fetch" /\ pc' # pc /\ last_fetch' = "ok" /\ ret = SomeErr) =>
            /\ buffer' = ExpectedEvents(fetched, fetched')
            /\ last_progress' = fetched']_vars

\* After a call that returned an error, the next call has fetched a snapshot
\* and found events.
C5_Witness ==
    /\ pc = "loop"
    /\ ret = SomeErr
    /\ last_fetch = "ok"
    /\ Len(buffer) >= 2

\* C6 as stated: once a next() call has returned None, every later call
\* returns None.
C6_Original ==
    [][(Returns /\ ret = None) => ret' = None]_vars

\* C7 as stated: a next() call never returns an error for a
\* Progress::from_player call that failed because the player was gone.
C7_Original ==
    ~(pc = "idle" /\ ret = SomeErr /\ last_fetch = "err_gone")

\* Two snapshots are equal in the six compared fields (f64 by `==`).
SameCompared(last, new_progress) ==
    \A i \in 1 .. 6 : ~Differs(last, new_progress)[i]

\* C8: a fetched snapshot equal to last_progress in the six compared
\* fields pushes no event; next() then does not return: it goes to the
\* is_running check and, with the player running, to the blocking wait.
C8_NoOpDiff ==
    [][/\ (pc = "fetch" /\ pc' = "loop" /\ SameCompared(last_progress, fetched')) =>
            buffer' = <<>> /\ ret' = ret
       /\ (pc = "loop" /\ buffer = <<>> /\ pc' # pc) =>
            pc' = "is_running" /\ ret' = ret
       /\ (pc = "is_running" /\ running /\ pc' # pc) =>
            pc' = "wait" /\ ret' = ret]_vars

\* read_events has returned after a fetch without pushing anything, although
\* the fetched metadata has entries in `rest`.
C8_Witness ==
    /\ pc = "loop"
    /\ buffer = <<>>
    /\ last_fetch = "ok"
    /\ fetched.metadata.rest # {}

\* C9: a run of read_events that fetched a snapshot pushes a TrackChanged
\* event exactly if the track id of the fetched metadata differs from the
\* track id of last_progress' metadata; `rest` plays no part.
C9_TrackChangedIffTrackId ==
    [][(pc = "fetch" /\ pc' = "loop") =>
          (HasEvent(buffer', "TrackChanged") <=>
             last_progress.metadata.track_id # fetched'.metadata.track_id)]_vars

\* TrackChanged was yielded for a track; the next call fetched a snapshot
\* with the same track id and pushed other events, but no TrackChanged.
C9_Witness ==
    /\ pc = "loop"
    /\ ret.kind = "Ok"
    /\ ret.event.type = "TrackChanged"
    /\ ret.event.metadata.track_id = fetched.metadata.track_id
    /\ fetched.metadata.rest # {}
    /\ buffer # <<>>
    /\ ~HasEvent(buffer, "TrackChanged")

\* C10: a TrackChanged event, pushed or just yielded, carries the track id
\* of the snapshot fetched by the run of read_events that pushed it, and an
\* empty `rest`.
C10_TrackChangedPayload ==
    LET stripped == [track_id |-> fetched.metadata.track_id, rest |-> {}]
    IN  /\ \A i \in 1 .. Len(burst) :
              burst[i].type = "TrackChanged" => burst[i].metadata = stripped
        /\ (pc = "idle" /\ ret.kind = "Ok" /\ ret.event.type = "TrackChanged") =>
              ret.event.metadata = stripped

\* TrackChanged has just been yielded and the fetched metadata has entries
\* in `rest`.
C10_Witness ==
    /\ pc = "idle"
    /\ ret.kind = "Ok"
    /\ ret.event.type = "TrackChanged"
    /\ fetched.metadata.rest # {}
    /\ last_progress = fetched

\* C11 as stated, for the call that follows the one that yielded
\* PlayerShutDown: it returns None (no event, no error, no second
\* PlayerShutDown).
C11_Original ==
    [][(Returns /\ ret = SomeOk(PlayerShutDown)) => ret' = None]_vars

\* C12: new() makes one call of Progress::from_player; when it fails no
\* stream exists, and none comes to exist; when it succeeds the stream
\* starts with an empty buffer and the fetched snapshot as last_progress, and
\* the first call yields nothing for a snapshot equal to it in the compared
\* fields.
C12_ConstructionFailsFast ==
    [][/\ (pc = "new" /\ pc' # pc /\ last_fetch' = "ok") =>
            /\ pc' = "idle"
            /\ buffer' = <<>>
            /\ last_progress' = fetched'
            /\ ret' = NoCall
       /\ (pc = "new" /\ pc' # pc /\ last_fetch' # "ok") =>
            /\ pc' = "failed"
            /\ UNCHANGED <<buffer, last_progress, ret, fetched>>
       /\ pc = "failed" =>
            /\ pc' = "failed"
            /\ UNCHANGED <<buffer, last_progress, ret, last_fetch, fetched>>
       /\ (pc = "fetch" /\ pc' = "loop" /\ ret = NoCall
             /\ \A i \in 1 .. 6 : ~Differs(fetched, fetched')[i]) =>
            buffer' = <<>>]_vars

\* The first call after construction has fetched a snapshot equal in the
\* compared fields and pushed nothing.
C12_Witness ==
    /\ pc = "loop"
    /\ ret = NoCall
    /\ buffer = <<>>
    /\ last_fetch = "ok"

\* C13: a run of read_events that fetched a snapshot pushes, for each of
\* the six compared fields, one event with the new value if the field differs
\* from last_progress (f64 fields by `!=`) and none otherwise; the playback
\* status maps to the event of the same name.
C13_OneEventPerChangedField ==
    [][(pc = "fetch" /\ pc' = "loop") =>
          /\ buffer = <<>>
          /\ buffer' = ExpectedEvents(last_progress, fetched')]_vars

\* All six fields changed: six events are queued.
C13_Witness ==
    /\ pc = "loop"
    /\ Len(buffer) = 6
    /\ buffer[2] = LoopingChanged(fetched.loop_status)

\* C14: last_progress is the snapshot of the latest successful
\* Progress::from_player call, and it changes only in a step in which that
\* call succeeds (in new or in read_events).
C14_LastProgressIsLatestFetch ==
    [][/\ last_progress' = fetched'
       /\ last_progress' # last_progress =>
            /\ pc \in {"new", "fetch"}
            /\ last_fetch' = "ok"]_vars

\* After TrackChanged was yielded, the next call fetched a snapshot that
\* differs in no compared field; it is the last progress now.
C14_Witness ==
    /\ pc = "loop"
    /\ buffer = <<>>
    /\ ret.kind = "Ok"
    /\ ret.event.type = "TrackChanged"
    /\ last_progress.metadata.rest # ret.event.metadata.rest
    /\ last_progress = fetched

\* The iterator, not the player, takes a step.
IterMoves ==
    <<buffer, last_progress, pc, ret, burst, drained, last_fetch, fetched, yielded>>' #
    <<buffer, last_progress, pc, ret, burst, drained, last_fetch, fetched, yielded>>

\* C15: called with a non-empty buffer, next() returns the front event in
\* that step, whether the player is running or not, without a wait or a
\* fetch; None is returned only with an empty buffer.
C15_PopsWithoutPlayer ==
    [][/\ (pc \in {"idle", "loop"} /\ buffer # <<>> /\ IterMoves) =>
            /\ Returns
            /\ ret' = SomeOk(Head(buffer))
            /\ buffer' = Tail(buffer)
            /\ drained' = drained + 1
            /\ UNCHANGED <<last_progress, burst, last_fetch, fetched>>
       /\ (Returns /\ ret' = None) => buffer = <<>> /\ buffer' = <<>>]_vars

\* The second event of a run of read_events has been yielded and a third is
\* queued while the player is gone.
C15_Witness ==
    /\ pc = "idle"
    /\ ~running
    /\ drained = 2
    /\ Len(buffer) >= 1
    /\ ret = SomeOk(burst[2])

\* C16: next() enters the blocking wait only from its is_running check,
\* with the player running and the buffer empty; the second is_running
\* check follows the return of the wait; Progress::from_player is called
\* only from that second check, with the player running.
C16_CallOrder ==
    [][/\ (pc' = "wait" /\ pc # "wait") =>
            pc = "is_running" /\ running /\ buffer = <<>>
       /\ (pc' = "recheck" /\ pc # "recheck") => pc = "wait"
       /\ (pc' = "fetch" /\ pc # "fetch") =>
            pc = "recheck" /\ running /\ buffer = <<>>
       /\ (pc = "fetch" /\ IterMoves) => last_fetch' # "none"
       /\ (pc # "fetch" /\ pc # "new") => UNCHANGED <<last_fetch, fetched>>]_vars

\* After a call that returned an error, the next call is about to fetch.
C16_Witness ==
    /\ pc = "fetch"
    /\ running
    /\ ret = SomeErr
    /\ buffer = <<>>

\* C18: the buffer holds at most six events, no two from the same pass,
\* and PlayerShutDown only alone.
C18_BufferShape ==
    /\ Len(buffer) <= 6
    /\ \A i, j \in 1 .. Len(buffer) :
          i # j => PassOf(buffer[i]) # PassOf(buffer[j])
    /\ HasEvent(buffer, "PlayerShutDown") => buffer = <<PlayerShutDown>>

\* PlayerShutDown is queued, alone.
C18_Witness ==
    /\ pc = "loop"
    /\ buffer = <<PlayerShutDown>>
    /\ ~running

\* The thread is inside a next() call.
InCall == pc \in {"loop", "is_running", "wait", "recheck", "fetch"}

\* C19: when the wait always returns and the player is gone for good in the
\* end, every next() call returns and the stream (if construction gave one)
\* returns None in the end; a call that never returns finds the player
\* running again and again and keeps fetching snapshots that push nothing.
C19_EventuallyEnds ==
    /\ (<>[](~running)) =>
          /\ [](InCall => <>(pc = "idle"))
          /\ <>(pc = "failed" \/ (pc = "idle" /\ ret = None))
    /\ (<>[]InCall) =>
          /\ []<>(pc = "is_running" /\ running)
          /\ []<>(pc = "loop" /\ buffer = <<>> /\ last_fetch = "ok")

\* PlayerShutDown was yielded and the call after it returned None, the
\* player still gone.
C19_Witness ==
    /\ pc = "idle"
    /\ ret = None
    /\ ~running
    /\ burst = <<PlayerShutDown>>
    /\ drained = 1

\* The event differs in value from what was yielded last for its field
\* (f64 values by `!=`); PlayerShutDown has no field.
YieldDiffers(y, e) ==
    CASE e.type \in {"Playing", "Paused", "Stopped"} -> e.type # y.playback_status
      [] e.type = "LoopingChanged" -> e.loop_status # y.loop_status
      [] e.type = "ShuffleToggled" -> e.shuffle # y.shuffle
      [] e.type = "VolumeChanged" -> f64_ne(e.volume, y.current_volume)
      [] e.type = "PlaybackRateChanged" -> f64_ne(e.rate, y.playback_rate)
      [] e.type = "TrackChanged" -> e.metadata.track_id # y.track_id
      [] OTHER -> TRUE

====
